---- MODULE Spec2Model ----
(***************************************************************************)
(* Tic Tac Toe round controller of tic_tac_toe_frontend/App.tsx: the board *)
(* rules (getWinner, isDraw, computeStatus) and the three event handlers   *)
(* of the App component (applyMove, restartRound, resetScoresAndRestart).  *)
(* Events are handled one at a time: each handler runs to completion and   *)
(* the component re-renders before the next event is delivered.            *)
(***************************************************************************)
EXTENDS Integers, Sequences, FiniteSets, TLC

\* Largest value of X + O + draws the session is allowed to reach in the model.
MaxTotal == 1

\* type Player = 'X' | 'O'
Player == {"X", "O"}

\* The null of type Cell = Player | null
Null == "null"

\* type Cell = Player | null
Cell == Player \cup {Null}

\* Indices of the 9 cells of a Board
Indices == 0..8

\* type Board = Cell[] (always of length 9)
Board == [Indices -> Cell]

WINNING_LINES ==
    << <<0, 1, 2>>,
       <<3, 4, 5>>,
       <<6, 7, 8>>,
       <<0, 3, 6>>,
       <<1, 4, 7>>,
       <<2, 5, 8>>,
       <<0, 4, 8>>,
       <<2, 4, 6>> >>

createEmptyBoard == [i \in Indices |-> Null]

oppositePlayer(player) == IF player = "X" THEN "O" ELSE "X"

\* The value getWinner returns after the loop found no line.
NoWinner == [winner |-> Null, winningLine |-> Null]

\* One iteration of the for loop of getWinner: the test of line k.
lineMatches(b, k) ==
    LET line == WINNING_LINES[k]
        v == b[line[1]]
    IN  v # Null /\ v = b[line[2]] /\ v = b[line[3]]

\* The for loop of getWinner from line k on: the first matching line returns.
RECURSIVE scanLines(_, _)
scanLines(b, k) ==
    IF k > Len(WINNING_LINES) THEN NoWinner
    ELSE IF lineMatches(b, k)
         THEN [winner |-> b[WINNING_LINES[k][1]], winningLine |-> WINNING_LINES[k]]
         ELSE scanLines(b, k + 1)

\* Mutation of scanLines: the last matching line wins instead of the first.
RECURSIVE scanLinesLastMatch(_, _)
scanLinesLastMatch(b, k) ==
    IF k > Len(WINNING_LINES) THEN NoWinner
    ELSE LET rest == scanLinesLastMatch(b, k + 1)
         IN  IF rest.winner # Null THEN rest
             ELSE IF lineMatches(b, k)
                  THEN [winner |-> b[WINNING_LINES[k][1]], winningLine |-> WINNING_LINES[k]]
                  ELSE NoWinner

\* Mutation of getWinner: scan order reversed.
getWinnerLastMatch(b) == scanLinesLastMatch(b, 1)

getWinner(b) == scanLines(b, 1)

\* Mutation of isDraw: a full board is a draw whether or not it has a winner.
isDrawFullOnly(b) == \A i \in Indices : b[i] # Null

isDraw(b) == (\A i \in Indices : b[i] # Null) /\ getWinner(b).winner = Null

\* Mutation of computeStatus: the full board is tested before the winner.
computeStatusDrawFirst(b, np) ==
    LET w == getWinner(b)
    IN  IF \A i \in Indices : b[i] # Null THEN [kind |-> "DRAW"]
        ELSE IF w.winner # Null /\ w.winningLine # Null
             THEN [kind |-> "WON", winner |-> w.winner, winningLine |-> w.winningLine]
             ELSE [kind |-> "PLAYING", nextPlayer |-> np]

\* Mutation of computeStatus: the draw case is missing.
computeStatusNoDraw(b, np) ==
    LET w == getWinner(b)
    IN  IF w.winner # Null /\ w.winningLine # Null
        THEN [kind |-> "WON", winner |-> w.winner, winningLine |-> w.winningLine]
        ELSE [kind |-> "PLAYING", nextPlayer |-> np]

computeStatus(b, np) ==
    LET w == getWinner(b)
    IN  IF w.winner # Null /\ w.winningLine # Null
        THEN [kind |-> "WON", winner |-> w.winner, winningLine |-> w.winningLine]
        ELSE IF isDraw(b) THEN [kind |-> "DRAW"]
        ELSE [kind |-> "PLAYING", nextPlayer |-> np]

\* Value of out before any rule function was called.
NoOut == [fn |-> "none"]

VARIABLES
    board,       \* useState<Board>
    nextPlayer,  \* useState<Player>
    scores,      \* useState<{X, O, draws}>
    status,      \* useMemo(() => computeStatus(board, nextPlayer))
    lastEvent,   \* history: the handler call that ran last
    roundBase,   \* history: X + O + draws when the current round started
    out,         \* the last direct call of a rule function and its result
    captured,    \* the nextPlayer the handlers of the last render closed over
    roundStarter, \* history: the nextPlayer the current round started with
    replay       \* history: how far the events since launch follow Scenario2

vars == <<board, nextPlayer, scores, status, lastEvent, roundBase, out,
          captured, roundStarter, replay>>

\* The moves of the scenario "X plays 0, 1, 2 with O interleaved on 3, 4".
Scenario2 == <<0, 3, 1, 4, 2>>

\* Value of replay once an event has left the scenario.
NotFollowing == [following |-> FALSE, count |-> 0]

\* replay after applyMove(index): the next move of the scenario, or any
\* applyMove once the scenario is complete, keeps following it.
replayAfterMove(r, index) ==
    IF r.following /\ r.count = Len(Scenario2) THEN r
    ELSE IF r.following /\ index = Scenario2[r.count + 1]
         THEN [following |-> TRUE, count |-> r.count + 1]
         ELSE NotFollowing

ZeroScores == [X |-> 0, O |-> 0, draws |-> 0]

Total(s) == s.X + s.O + s.draws

Init ==
    /\ board = createEmptyBoard
    /\ nextPlayer = "X"
    /\ scores = ZeroScores
    /\ status = computeStatus(board, nextPlayer)
    /\ lastEvent = [op |-> "init"]
    /\ roundBase = 0
    /\ out = NoOut
    /\ captured = nextPlayer
    /\ roundStarter = nextPlayer
    /\ replay = [following |-> TRUE, count |-> 0]

\* Mutation of moveAccepted: the occupied-cell test is missing.
moveAcceptedNoOccupiedCheck(prev, index, np) ==
    computeStatus(prev, np).kind = "PLAYING"

\* Mutation of moveAccepted: the status test is missing.
moveAcceptedNoStatusCheck(prev, index, np) ==
    prev[index] = Null

\* The two early returns of the setBoard updater of applyMove.
moveAccepted(prev, index, np) ==
    /\ computeStatus(prev, np).kind = "PLAYING"
    /\ prev[index] = Null

\* Mutation of scoresAfter: a win is credited to the player who moves next.
scoresAfterCreditsNext(s, afterStatus, np) ==
    IF afterStatus.kind = "WON"
    THEN [s EXCEPT ![oppositePlayer(np)] = @ + 1]
    ELSE IF afterStatus.kind = "DRAW"
         THEN [s EXCEPT !.draws = @ + 1]
         ELSE s

\* Mutation of scoresAfter: a draw is counted on every move that is no win.
scoresAfterCountsEveryMove(s, afterStatus, np) ==
    IF afterStatus.kind = "WON"
    THEN [s EXCEPT ![afterStatus.winner] = @ + 1]
    ELSE [s EXCEPT !.draws = @ + 1]

\* The setScores calls of applyMove; np is the mark just placed.
scoresAfter(s, afterStatus, np) ==
    IF afterStatus.kind = "WON"
    THEN [s EXCEPT ![afterStatus.winner] = @ + 1]
    ELSE IF afterStatus.kind = "DRAW"
         THEN [s EXCEPT !.draws = @ + 1]
         ELSE s

\* Mutation of nextPlayerAfter: the turn does not advance when the round ends.
nextPlayerAfterOnlyIfPlaying(np, afterStatus) ==
    IF afterStatus.kind = "PLAYING" THEN oppositePlayer(np) ELSE np

\* The setNextPlayer call of applyMove.
nextPlayerAfter(np, afterStatus) == oppositePlayer(np)

\* Bound of the model: a round in progress may end only while fewer than
\* MaxTotal results are counted.
MayEndRound(st, afterStatus, s) ==
    (st.kind = "PLAYING" /\ afterStatus.kind # "PLAYING") => Total(s) < MaxTotal

\* Re-render after a handler: the memoized status and the round history.
Render(ev, newRound) ==
    /\ status' = computeStatus(board', nextPlayer')
    /\ lastEvent' = ev
    /\ roundBase' = IF newRound THEN Total(scores') ELSE roundBase
    /\ out' = out
    /\ captured' = nextPlayer'
    /\ roundStarter' = IF newRound THEN nextPlayer' ELSE roundStarter

applyMove(index) ==
    LET accepted == moveAccepted(board, index, nextPlayer)
        next == [board EXCEPT ![index] = nextPlayer]
        afterStatus == computeStatus(next, oppositePlayer(nextPlayer))
    IN  /\ IF accepted
           THEN /\ board' = next
                /\ MayEndRound(status, afterStatus, scores)
                /\ scores' = scoresAfter(scores, afterStatus, nextPlayer)
                /\ nextPlayer' = nextPlayerAfter(nextPlayer, afterStatus)
           ELSE UNCHANGED <<board, scores, nextPlayer>>
        /\ Render([op |-> "applyMove", accepted |-> accepted], FALSE)
        /\ replay' = replayAfterMove(replay, index)

\* Mutation of restartRoundUpdates: X always starts.
restartRoundUpdatesAlwaysX(startingPlayer) ==
    /\ board' = createEmptyBoard
    /\ nextPlayer' = "X"

\* The two state updates of restartRound.
restartRoundUpdates(startingPlayer) ==
    /\ board' = createEmptyBoard
    /\ nextPlayer' = startingPlayer

restartRound(startingPlayer) ==
    /\ restartRoundUpdates(startingPlayer)
    /\ scores' = scores
    /\ Render([op |-> "restartRound", startingPlayer |-> startingPlayer,
               defaulted |-> FALSE], TRUE)
    /\ replay' = NotFollowing

\* restartRound() called without an argument: startingPlayer defaults to 'X'.
restartRoundDefault ==
    /\ restartRoundUpdates("X")
    /\ scores' = scores
    /\ Render([op |-> "restartRound", startingPlayer |-> "X",
               defaulted |-> TRUE], TRUE)
    /\ replay' = NotFollowing

\* Mutation of resetScoresAndRestart: the scores are reset, the round is not.
resetScoresOnly ==
    /\ scores' = ZeroScores
    /\ UNCHANGED <<board, nextPlayer>>
    /\ Render([op |-> "resetScoresAndRestart"], TRUE)
    /\ replay' = NotFollowing

resetScoresAndRestart ==
    /\ scores' = ZeroScores
    /\ restartRoundUpdates("X")
    /\ Render([op |-> "resetScoresAndRestart"], TRUE)
    /\ replay' = NotFollowing

Next ==
    \/ \E index \in Indices : applyMove(index)
    \/ \E startingPlayer \in Player : restartRound(startingPlayer)
    \/ restartRoundDefault
    \/ resetScoresAndRestart

Spec == Init /\ [][Next]_vars

(***************************************************************************)
(* The rule functions called directly on arbitrary boards of 9 cells.      *)
(***************************************************************************)
InitRules ==
    /\ board \in Board
    /\ nextPlayer \in Player
    /\ scores = ZeroScores
    /\ status = computeStatus(board, nextPlayer)
    /\ lastEvent = [op |-> "init"]
    /\ roundBase = 0
    /\ out = NoOut
    /\ captured = nextPlayer
    /\ roundStarter = nextPlayer
    /\ replay = NotFollowing

callGetWinner ==
    /\ out' = [fn |-> "getWinner", val |-> getWinner(board)]
    /\ UNCHANGED <<board, nextPlayer, scores, status, lastEvent, roundBase,
                   captured, roundStarter, replay>>

callIsDraw ==
    /\ out' = [fn |-> "isDraw", val |-> isDraw(board)]
    /\ UNCHANGED <<board, nextPlayer, scores, status, lastEvent, roundBase,
                   captured, roundStarter, replay>>

callComputeStatus ==
    /\ out' = [fn |-> "computeStatus", val |-> computeStatus(board, nextPlayer)]
    /\ UNCHANGED <<board, nextPlayer, scores, status, lastEvent, roundBase,
                   captured, roundStarter, replay>>

NextRules ==
    \/ callGetWinner
    \/ callIsDraw
    \/ callComputeStatus

SpecRules == InitRules /\ [][NextRules]_vars

(***************************************************************************)
(* Events that are not separated by a re-render: an applyMove issued       *)
(* against the handlers of the last render places the nextPlayer that      *)
(* render closed over, while its setBoard updater receives the latest      *)
(* board and its setScores updater the latest scores.                      *)
(***************************************************************************)
applyMovePending(index) ==
    LET accepted == moveAccepted(board, index, captured)
        next == [board EXCEPT ![index] = captured]
        afterStatus == computeStatus(next, oppositePlayer(captured))
    IN  /\ IF accepted
           THEN /\ MayEndRound(computeStatus(board, captured), afterStatus, scores)
                /\ board' = next
                /\ scores' = scoresAfter(scores, afterStatus, captured)
                /\ nextPlayer' = nextPlayerAfter(captured, afterStatus)
           ELSE UNCHANGED <<board, scores, nextPlayer>>
        /\ lastEvent' = [op |-> "applyMove", accepted |-> accepted]
        /\ replay' = NotFollowing
        /\ UNCHANGED <<status, roundBase, out, captured, roundStarter>>

\* The component renders: the status is recomputed and the handlers close
\* over the current nextPlayer.
rerender ==
    /\ status' = computeStatus(board, nextPlayer)
    /\ captured' = nextPlayer
    /\ UNCHANGED <<board, nextPlayer, scores, lastEvent, roundBase, out,
                   roundStarter, replay>>

\* Rounds are started over by resetScoresAndRestart, which renders.
NextPending ==
    \/ \E index \in Indices : applyMovePending(index)
    \/ rerender
    \/ resetScoresAndRestart

SpecPending == Init /\ [][NextPending]_vars

(***************************************************************************)
(* One round in which moves keep being made: only applyMove is called, and *)
(* a call on an empty cell is not put off forever.                         *)
(***************************************************************************)
moveOnEmptyCell == \E index \in Indices : board[index] = Null /\ applyMove(index)

NextPlay == \E index \in Indices : applyMove(index)

SpecPlay == Init /\ [][NextPlay]_vars /\ WF_vars(moveOnEmptyCell)

TypeOK ==
    /\ board \in Board
    /\ nextPlayer \in Player
    /\ scores \in [{"X", "O", "draws"} -> 0..MaxTotal]
    /\ status.kind \in {"PLAYING", "WON", "DRAW"}
    /\ roundBase \in 0..MaxTotal
    /\ captured \in Player
    /\ roundStarter \in Player
    /\ replay \in [following : BOOLEAN, count : 0..Len(Scenario2)]

(***************************************************************************)
(* Vocabulary of the properties.                                           *)
(***************************************************************************)
Terminal(st) == st.kind \in {"WON", "DRAW"}

Playing(p) == [kind |-> "PLAYING", nextPlayer |-> p]

MoveAccepted(ev) == ev.op = "applyMove" /\ ev.accepted

MoveRejected(ev) == ev.op = "applyMove" /\ ~ev.accepted

BoardFull(b) == \A i \in Indices : b[i] \in Player

\* The three cells of line l hold the same mark.
ThreeInARow(b, l) == \E p \in Player : \A j \in 1..3 : b[l[j]] = p

\* The order in which the lines are to be scanned.
LineOrder ==
    << <<0, 1, 2>>, <<3, 4, 5>>, <<6, 7, 8>>, <<0, 3, 6>>,
       <<1, 4, 7>>, <<2, 5, 8>>, <<0, 4, 8>>, <<2, 4, 6>> >>

SomeThreeInARow(b) == \E k \in DOMAIN LineOrder : ThreeInARow(b, LineOrder[k])

\* C1: applyMove(i) changes neither board, nextPlayer nor scores when the
\* status is Won or Draw or cell i is occupied: a step that changes one of them
\* is no applyMove(i) for such an i.
C1_RejectedMoveIsNoOp ==
    [][\/ UNCHANGED <<board, nextPlayer, scores>>
       \/ \A i \in Indices :
             (Terminal(status) \/ board[i] # Null) => ~applyMove(i)]_vars

\* A move on an occupied cell of a round in progress has been rejected.
C1_Witness ==
    /\ MoveRejected(lastEvent)
    /\ status.kind = "PLAYING"
    /\ \E i \in Indices : board[i] # Null

\* C2: an accepted move adds exactly 1 to the winner's counter when it wins,
\* exactly 1 to draws when it draws and nothing otherwise; rejected moves and
\* restartRound change no counter.
C2_ScoreSteps ==
    [][/\ MoveAccepted(lastEvent') =>
            /\ status'.kind = "WON" =>
                   scores' = [scores EXCEPT ![status'.winner] = @ + 1]
            /\ status'.kind = "DRAW" =>
                   scores' = [scores EXCEPT !.draws = @ + 1]
            /\ status'.kind = "PLAYING" => scores' = scores
       /\ MoveRejected(lastEvent') => scores' = scores
       /\ lastEvent'.op = "restartRound" => scores' = scores]_vars

\* The move that filled the board without a line has been counted as a draw.
C2_Witness ==
    /\ MoveAccepted(lastEvent)
    /\ status.kind = "DRAW"
    /\ scores = [X |-> 0, O |-> 0, draws |-> 1]

\* C3: an accepted move places the mark of nextPlayer and leaves nextPlayer
\* the opposite of the mark placed, also when the move ended the round.
C3_TurnAlternates ==
    [][MoveAccepted(lastEvent') =>
          /\ \E i \in Indices : board'[i] # board[i]
          /\ \A i \in Indices : board'[i] # board[i] =>
                 /\ board'[i] = nextPlayer
                 /\ nextPlayer' \in Player \ {board'[i]}]_vars

\* A winning move has been made and the turn went to the loser.
C3_Witness ==
    /\ MoveAccepted(lastEvent)
    /\ status.kind = "WON"
    /\ nextPlayer \in Player \ {status.winner}

\* C4: in Won or Draw no applyMove changes the status or the board, and
\* Playing is reached again only by restartRound or resetScoresAndRestart.
C4_TerminalAbsorbing ==
    [][Terminal(status) =>
          /\ lastEvent'.op = "applyMove" => (status' = status /\ board' = board)
          /\ status'.kind = "PLAYING" =>
                 lastEvent'.op \in {"restartRound", "resetScoresAndRestart"}]_vars

\* A move has been tried on a won board that still has an empty cell.
C4_Witness ==
    /\ MoveRejected(lastEvent)
    /\ status.kind = "WON"
    /\ \E i \in Indices : board[i] = Null

\* C5: restartRound(p) yields the empty board, nextPlayer p and Playing(p)
\* and keeps the scores; without an argument p is X.
C5_RestartRound ==
    [][lastEvent'.op = "restartRound" =>
          /\ lastEvent'.defaulted => lastEvent'.startingPlayer = "X"
          /\ board' = [i \in Indices |-> Null]
          /\ nextPlayer' = lastEvent'.startingPlayer
          /\ status' = Playing(lastEvent'.startingPlayer)
          /\ scores' = scores]_vars

\* restartRound('O') has run after a round X won.
C5_Witness ==
    /\ lastEvent.op = "restartRound"
    /\ lastEvent.startingPlayer = "O"
    /\ scores = [X |-> 1, O |-> 0, draws |-> 0]
    /\ status = Playing("O")

\* C6: after resetScoresAndRestart the scores are all 0, the board is empty
\* and the status is Playing(X).
C6_ResetScoresAndRestart ==
    lastEvent.op = "resetScoresAndRestart" =>
        /\ scores = [X |-> 0, O |-> 0, draws |-> 0]
        /\ board = [i \in Indices |-> Null]
        /\ status = Playing("X")

\* resetScoresAndRestart has run.
C6_Witness ==
    /\ lastEvent.op = "resetScoresAndRestart"
    /\ Total(scores) = 0
    /\ nextPlayer = "X"

\* C7: within a round X + O + draws exceeds its value at the round's start by
\* 1 if the round reached Won or Draw and by 0 otherwise.
C7_OneCountPerRound ==
    Total(scores) - roundBase = IF Terminal(status) THEN 1 ELSE 0

\* A move has been tried after a draw that was counted once.
C7_Witness ==
    /\ MoveRejected(lastEvent)
    /\ status.kind = "DRAW"
    /\ Total(scores) = roundBase + 1

\* C8: computeStatus returns Won whenever some line holds three identical
\* marks, Draw when the board is full without such a line, and
\* Playing(nextPlayer) otherwise.
C8_ComputeStatus ==
    out.fn = "computeStatus" =>
        /\ SomeThreeInARow(board) => out.val.kind = "WON"
        /\ (~SomeThreeInARow(board) /\ BoardFull(board)) => out.val = [kind |-> "DRAW"]
        /\ (~SomeThreeInARow(board) /\ ~BoardFull(board)) => out.val = Playing(nextPlayer)

\* computeStatus has been called on a full board with a line.
C8_Witness ==
    /\ out.fn = "computeStatus"
    /\ BoardFull(board)
    /\ SomeThreeInARow(board)
    /\ out.val.kind = "WON"

\* C9: getWinner returns the mark and the indices of the first line, in the
\* listed order, that holds three identical marks, and (null, null) when no
\* line does.
C9_GetWinner ==
    out.fn = "getWinner" =>
        LET matching == {k \in DOMAIN LineOrder : ThreeInARow(board, LineOrder[k])}
        IN  IF matching = {}
            THEN out.val = [winner |-> Null, winningLine |-> Null]
            ELSE LET first == CHOOSE k \in matching : \A j \in matching : k <= j
                 IN  out.val = [winner |-> board[LineOrder[first][1]],
                                winningLine |-> LineOrder[first]]

\* getWinner has been called on a board with a line of X above a line of O.
C9_Witness ==
    /\ out.fn = "getWinner"
    /\ \A i \in 0..2 : board[i] = "X"
    /\ \A i \in 3..5 : board[i] = "O"
    /\ out.val.winner = "X"

\* C10: isDraw is true exactly when all 9 cells are non-empty and getWinner
\* reports no winner.
C10_IsDraw ==
    out.fn = "isDraw" =>
        (out.val <=> (BoardFull(board) /\ getWinner(board).winner = Null))

\* isDraw has been called on a full board with a winner.
C10_Witness ==
    /\ out.fn = "isDraw"
    /\ BoardFull(board)
    /\ getWinner(board).winner # Null
    /\ out.val = FALSE

\* The lines, by their place in the scan order, that hold three identical marks.
CompleteLines(b) == {k \in DOMAIN LineOrder : ThreeInARow(b, LineOrder[k])}

\* The cells of line k.
CellsOf(k) == {LineOrder[k][j] : j \in 1..3}

\* C11 as stated: a board reached by legal play has at most one line filled
\* with three identical marks.
C11_AtMostOneLine == Cardinality(CompleteLines(board)) <= 1

\* C11 as amended: a board reached by legal play has at most two lines filled
\* with three identical marks, and two such lines hold the same mark and share
\* a cell.
C11_LinesOfOneMove ==
    /\ Cardinality(CompleteLines(board)) <= 2
    /\ \A k, l \in CompleteLines(board) :
          /\ board[LineOrder[k][1]] = board[LineOrder[l][1]]
          /\ CellsOf(k) \cap CellsOf(l) # {}

\* One move has completed two lines at once.
C11_Witness ==
    /\ Cardinality(CompleteLines(board)) = 2
    /\ MoveAccepted(lastEvent)
    /\ status.kind = "WON"

\* C12: the board never holds a complete line of X together with a complete
\* line of O, so every complete line carries the winner that is reported.
C12_OneWinner ==
    /\ ~(\E k, l \in DOMAIN LineOrder :
            /\ \A j \in 1..3 : board[LineOrder[k][j]] = "X"
            /\ \A j \in 1..3 : board[LineOrder[l][j]] = "O")
    /\ \A k \in CompleteLines(board) :
          status.kind = "WON" /\ status.winner = board[LineOrder[k][1]]

\* A round has been won on a board where the loser holds two cells of a line.
C12_Witness ==
    /\ status.kind = "WON"
    /\ \E k \in DOMAIN LineOrder :
          Cardinality({c \in CellsOf(k) : board[c] \in Player \ {status.winner}}) = 2

\* C13: after applyMove(0), (3), (1), (4), (2) from the initial state the
\* status is Won(X, [0,1,2]) and the scores are X=1, O=0, draws=0, and every
\* further applyMove leaves board, nextPlayer and scores as they are.
C13_Scenario2 ==
    (replay.following /\ replay.count = 5) =>
        /\ status = [kind |-> "WON", winner |-> "X", winningLine |-> <<0, 1, 2>>]
        /\ scores = [X |-> 1, O |-> 0, draws |-> 0]
        /\ board = [i \in Indices |->
                       IF i \in {0, 1, 2} THEN "X"
                       ELSE IF i \in {3, 4} THEN "O" ELSE Null]
        /\ nextPlayer = "O"

\* The five moves have been made and a further applyMove has been tried.
C13_Witness ==
    /\ replay.following
    /\ replay.count = 5
    /\ MoveRejected(lastEvent)

\* The board is Won or Draw.
BoardTerminal(b) == SomeThreeInARow(b) \/ BoardFull(b)

Marks(b, p) == Cardinality({i \in Indices : b[i] = p})

\* C14: also when an applyMove runs with a nextPlayer captured before an
\* earlier applyMove became visible, no applyMove changes a cell of a board
\* that is Won or Draw, and a round adds at most 1 to X + O + draws.
C14_PendingKeepsInvariants ==
    /\ [](Total(scores) - roundBase <= 1)
    /\ [][(lastEvent'.op = "applyMove" /\ BoardTerminal(board))
             => (board' = board /\ scores' = scores)]_vars

\* A move has been tried on a board won by a player who moved twice in a row.
C14_Witness ==
    /\ MoveRejected(lastEvent)
    /\ SomeThreeInARow(board)
    /\ \E p \in Player : Marks(board, p) >= Marks(board, oppositePlayer(p)) + 2
    /\ Total(scores) = roundBase + 1

\* C15: every accepted applyMove places the mark of the nextPlayer of the
\* latest session state, also when it is issued against the same render as
\* the move before it.
C15_PlacesLatestNextPlayer ==
    [][MoveAccepted(lastEvent') =>
          \A i \in Indices : board'[i] # board[i] => board'[i] = nextPlayer]_vars

\* C16: an accepted applyMove(i) turns cell i from empty into the mark of
\* nextPlayer and leaves the other 8 cells alone (a step from a round in
\* progress with cell i empty yields that board or is no applyMove(i)), and
\* no applyMove changes a cell that holds a mark.
C16_OneCellPerMove ==
    [][/\ \A i \in Indices :
             (status.kind = "PLAYING" /\ board[i] = Null) =>
                 \/ board' = [board EXCEPT ![i] = nextPlayer]
                 \/ lastEvent'.op # "applyMove"
                 \/ ~applyMove(i)
       /\ lastEvent'.op = "applyMove" =>
             \A j \in Indices : board[j] # Null => board'[j] = board[j]]_vars

\* The eighth move of a round has been accepted and the round goes on.
C16_Witness ==
    /\ MoveAccepted(lastEvent)
    /\ status.kind = "PLAYING"
    /\ Marks(board, "X") = 4
    /\ Marks(board, "O") = 4

\* C17: when an accepted applyMove(i) that places mark m produces Won, the
\* winner is m, the winning line contains i and the counter that grows is m's.
C17_MoverWins ==
    [][(MoveAccepted(lastEvent') /\ status'.kind = "WON") =>
          /\ \E i \in Indices : board'[i] # board[i]
          /\ \A i \in Indices : board'[i] # board[i] =>
                 /\ status'.winner = board'[i]
                 /\ i \in {status'.winningLine[j] : j \in 1..3}
                 /\ scores'[board'[i]] = scores[board'[i]] + 1
                 /\ \A k \in {"X", "O", "draws"} \ {board'[i]} :
                        scores'[k] = scores[k]]_vars

\* O has made a winning move and O's counter has grown.
C17_Witness ==
    /\ MoveAccepted(lastEvent)
    /\ status.kind = "WON"
    /\ status.winner = "O"
    /\ scores = [X |-> 0, O |-> 1, draws |-> 0]

\* C18: the player who started the round has as many marks as the other
\* player and moves next, or has exactly one more and the other moves next.
C18_MarkCounts ==
    LET other == CHOOSE p \in Player : p # roundStarter
    IN  \/ /\ Marks(board, roundStarter) = Marks(board, other)
           /\ nextPlayer = roundStarter
        \/ /\ Marks(board, roundStarter) = Marks(board, other) + 1
           /\ nextPlayer = other

\* O started the round and has won it with one mark more than X.
C18_Witness ==
    /\ roundStarter = "O"
    /\ status.kind = "WON"
    /\ Marks(board, "O") = Marks(board, "X") + 1
    /\ nextPlayer = "X"

\* C19: while the status is Playing some cell is empty and applyMove on every
\* empty cell is accepted, a board with 9 marks is never Playing, and when
\* moves keep being made the status eventually is Won or Draw.
C19_RoundEnds ==
    /\ [](status.kind = "PLAYING" =>
             /\ \E i \in Indices : board[i] = Null
             /\ \A i \in Indices : board[i] = Null =>
                    ENABLED (applyMove(i) /\ board'[i] # Null))
    /\ [](BoardFull(board) => status.kind # "PLAYING")
    /\ <>Terminal(status)

\* The ninth move of the round has been accepted and ended it in a draw.
C19_Witness ==
    /\ MoveAccepted(lastEvent)
    /\ BoardFull(board)
    /\ status.kind = "DRAW"
    /\ roundStarter = "X"
    /\ Marks(board, "X") = 5

====
